---- MODULE Spec2Model ----
(***************************************************************************)
(* A model of the taitung-air-api servers: the successive versions of      *)
(* server.js kept in this repository.  Each version is one deployment      *)
(* (variant); a deployment serves one request at a time here.              *)
(*                                                                         *)
(* Dates are wall-clock dates without a time zone: the servers run where   *)
(* local time has no daylight-saving transition (Asia/Taipei), so adding   *)
(* hours in moment is adding hours to the wall clock.                      *)
(***************************************************************************)
EXTENDS Integers, Sequences, FiniteSets, TLC

VARIABLES
    variant,             \* which version of server.js is deployed
    API_KEY,             \* process.env.API_KEY || '' ("" when not set)
    REFERENCE_TIME_STR,  \* the reference instant, as the fields of the string
    testRouteRegs,       \* how many handlers app.get('/test-single-record') has registered
    pc,                  \* where the request handler stands
    route,               \* the path of the request being (or last) handled
    allMonitorTimes,     \* the batch handler's generated instants
    calls,               \* axios.get calls issued during the current request
    results,             \* the promises of the current request, in issue order
    transportOk,         \* history: some upstream call of this request answered with success
    response,            \* what res.json sent for the current request (<<>>: nothing yet)
    overtaken,           \* history: an answer with records came in while an earlier call was in flight
    outcomes             \* history: the records the upstream gave fetchDataByTime, by number of the call

vars ==
    <<variant, API_KEY, REFERENCE_TIME_STR, testRouteRegs, pc, route,
      allMonitorTimes, calls, results, transportOk, response, overtaken,
      outcomes>>

----------------------------------------------------------------------------
(* Bounds of the model *)

\* The upstream has data for the first DataHorizon instants of a window only;
\* every later instant fails or comes back empty.
DataHorizon == 2

\* Upstream answers overtake one another within a window of this many calls,
\* counted from the oldest one still in flight.
MaxReorder == 2

\* How many times the nested app.get('/test-single-record') is followed.
MaxRegs == 2

\* Reference instants tried by the window generator reach this many years
\* back from the year of the configured one.
RefYearsBack == 1

----------------------------------------------------------------------------
(* Calendar arithmetic, as moment and Date do it *)

IsLeapYear(y) ==
    (y % 4 = 0 /\ y % 100 # 0) \/ y % 400 = 0

DaysInMonth(y, m) ==
    IF m = 2 THEN (IF IsLeapYear(y) THEN 29 ELSE 28)
    ELSE IF m \in {4, 6, 9, 11} THEN 30 ELSE 31

\* Days from 1970-01-01 to the civil date y-m-d.
DaysFromCivil(y, m, d) ==
    LET yy  == IF m <= 2 THEN y - 1 ELSE y
        era == yy \div 400
        yoe == yy - era * 400
        mp  == IF m > 2 THEN m - 3 ELSE m + 9
        doy == (153 * mp + 2) \div 5 + d - 1
        doe == yoe * 365 + yoe \div 4 - yoe \div 100 + doy
    IN  era * 146097 + doe - 719468

\* The civil date <<y, m, d>> that lies z days after 1970-01-01.
CivilFromDays(z) ==
    LET zz  == z + 719468
        era == zz \div 146097
        doe == zz - era * 146097
        yoe == (doe - doe \div 1460 + doe \div 36524 - doe \div 146096) \div 365
        doy == doe - (365 * yoe + yoe \div 4 - yoe \div 100)
        mp  == (5 * doy + 2) \div 153
        d   == doy - (153 * mp + 2) \div 5 + 1
        m   == IF mp < 10 THEN mp + 3 ELSE mp - 9
        y   == yoe + era * 400
    IN  <<IF m <= 2 THEN y + 1 ELSE y, m, d>>

\* moment(str, 'YYYY-MM-DD HH:mm').isValid(): no field overflows; hour 24 is
\* accepted with minute 0 only (it is midnight of the next day).
momentIsValid(f) ==
    /\ f.mo \in 1..12
    /\ f.d >= 1 /\ f.d <= DaysInMonth(f.y, f.mo)
    /\ f.h >= 0 /\ f.h <= 24
    /\ f.mi \in 0..59
    /\ (f.h = 24 => f.mi = 0)

\* moment(str, 'YYYY-MM-DD HH:mm'): the instant, in minutes since 1970-01-01 00:00.
momentParse(f) ==
    DaysFromCivil(f.y, f.mo, f.d) * 1440 + f.h * 60 + f.mi

\* m.clone().add(i, 'hours')
momentAddHours(m, i) ==
    m + i * 60

\* m.format('YYYY-MM-DD HH:00'): the date and the hour; the minutes are
\* written as the literal 00.
momentFormat(m) ==
    LET days == m \div 1440
        c    == CivilFromDays(days)
        h    == (m - days * 1440) \div 60
    IN  <<c[1], c[2], c[3], h, 0>>

\* new Date(str) of a 'YYYY-MM-DD HH:mm' string, in minutes since 1970-01-01 00:00.
DateParse(t) ==
    DaysFromCivil(t[1], t[2], t[3]) * 1440 + t[4] * 60 + t[5]

----------------------------------------------------------------------------
(* The time-window generator *)

\* for (let i = -36; ...
WindowFrom == -36

\* ... i <= 36; i++)
WindowTo == 36

\* Mutant: the loop stops one hour early (i < 36).
GenerateMonitorTimesShort(referenceMoment) ==
    [k \in 1..(WindowTo - WindowFrom) |->
        momentFormat(momentAddHours(referenceMoment, WindowFrom + k - 1))]

\* Mutant: the loop adds days instead of hours from the reference on.
GenerateMonitorTimesSkewed(referenceMoment) ==
    [k \in 1..(WindowTo - WindowFrom + 1) |->
        momentFormat(momentAddHours(referenceMoment,
            IF WindowFrom + k - 1 > 0 THEN 24 * (WindowFrom + k - 1)
            ELSE WindowFrom + k - 1))]

\* allMonitorTimes after the loop: one formatted instant per i, in order.
GenerateMonitorTimes(referenceMoment) ==
    [k \in 1..(WindowTo - WindowFrom + 1) |->
        momentFormat(momentAddHours(referenceMoment, WindowFrom + k - 1))]

----------------------------------------------------------------------------
(* Deployments and configuration *)

\* The versions of server.js: src/server.js, and the files kept under
\* src/unnamed (part_001 and part_004 each hold two versions).
Variants ==
    {"server", "p000", "p001a", "p001b", "p002", "p003", "p004a", "p004b"}

BatchVariants == {"p002", "p003", "p004b"}

\* The versions whose file contains app.get('/test-single-record', ...).
SingleVariants == {"p002", "p004b"}

\* The versions that define the forecast handler, and the path they serve it on.
ForecastVariants == {"server", "p000", "p001a", "p001b", "p004a"}

ForecastPath(v) ==
    IF v = "p001a" THEN "/api/air/huadong" ELSE "/huadong-air-forecast"

\* const API_KEY = process.env.API_KEY || <fallback>: part_000 falls back to
\* a key written in the file, the others to '' (or undefined).
ApiKeyValues(v) ==
    IF v = "p000" THEN {"env-key", "built-in-key"} ELSE {"", "env-key"}

\* const REFERENCE_TIME_STR = "2025-11-26 17:00" / "2025-11-26 00:00"
ReferenceTimeOf(v) ==
    IF v = "p004b" THEN [y |-> 2025, mo |-> 11, d |-> 26, h |-> 0, mi |-> 0]
    ELSE [y |-> 2025, mo |-> 11, d |-> 26, h |-> 17, mi |-> 0]

NoReference == [y |-> 0, mo |-> 0, d |-> 0, h |-> 0, mi |-> 0]

\* A reference string that moment rejects: "2025-11-31 00:00".
BadReference == [y |-> 2025, mo |-> 11, d |-> 31, h |-> 0, mi |-> 0]

\* const TEST_DATE = "2025-11-26 17:00"
TEST_DATE == <<2025, 11, 26, 17, 0>>

----------------------------------------------------------------------------
(* The upstream open-data API, as axios sees it *)

AirRecord(date, item) ==
    [monitordate |-> date, itemengname |-> item]

\* Record lists the air-quality resource answers with.  monitordate is the
\* record's own date; a list need not be in date order, two lists may
\* interleave, and two records may carry the same date.
AirBodies ==
    { <<AirRecord(<<2025, 12, 1, 0, 0>>, "PM2.5"),
        AirRecord(<<2025, 11, 24, 12, 0>>, "PM10")>>,
      <<AirRecord(<<2025, 11, 24, 13, 0>>, "O3"),
        AirRecord(<<2025, 11, 24, 12, 0>>, "SO2")>> }

ForecastRecord(area, publishtime, content) ==
    [area |-> area, publishtime |-> publishtime, content |-> content]

\* Record lists the forecast resource answers with.
ForecastBodies ==
    { <<ForecastRecord("north", <<2025, 11, 26, 10, 30>>, "a")>>,
      <<ForecastRecord("huadong", <<2025, 11, 25, 22, 0>>, "b"),
        ForecastRecord("north", <<2025, 11, 26, 10, 30>>, "c"),
        ForecastRecord("huadong", <<2025, 12, 1, 10, 30>>, "d"),
        ForecastRecord("huadong", <<2025, 11, 25, 22, 0>>, "e")>> }

Reply(kind, status, data, hasRecords, records) ==
    [kind |-> kind, status |-> status, data |-> data,
     hasRecords |-> hasRecords, records |-> records]

\* axios.get rejects: no response at all, or a response with an error status
\* (error.response set; its body may be empty).
Failures ==
    { Reply("network_error", 0, "", FALSE, <<>>),
      Reply("http_error", 403, "denied", FALSE, <<>>),
      Reply("http_error", 500, "", FALSE, <<>>) }

\* axios.get resolves, without a records field or with an empty one.
EmptyReplies ==
    { Reply("ok", 200, "", FALSE, <<>>),
      Reply("ok", 200, "", TRUE, <<>>) }

AirReplies ==
    Failures \cup EmptyReplies \cup
    { Reply("ok", 200, "", TRUE, b) : b \in AirBodies }

ForecastReplies ==
    Failures \cup EmptyReplies \cup
    { Reply("ok", 200, "", TRUE, b) : b \in ForecastBodies }

NoReply == Reply("none", 0, "", FALSE, <<>>)

\* What the upstream may answer to the k-th call of a request.
RepliesFor(path, k) ==
    IF path = "/taitung-air-data" \/ path = "/test-single-record"
    THEN (IF k <= DataHorizon THEN AirReplies ELSE Failures \cup EmptyReplies)
    ELSE ForecastReplies

\* response.data.records || []
RecordsOrEmpty(reply) ==
    IF reply.hasRecords THEN reply.records ELSE <<>>

----------------------------------------------------------------------------
(* Promises *)

Promise(status, value, reply) ==
    [status |-> status, value |-> value, reply |-> reply]

Pending == Promise("pending", <<>>, NoReply)

Call(url, monitordate) ==
    [url |-> url, monitordate |-> monitordate]

\* fetchDataByTime up to its await.  The later version (part_004) throws
\* when the key is missing, before any call; the others always call.
fetchDataByTimeStart(v, key, monitorDate) ==
    IF v = "p004b" /\ key = ""
    THEN Promise("rejected", <<>>, NoReply)
    ELSE Pending

\* fetchDataByTime after its await: the records of a successful answer, and
\* [] when axios.get threw; the promise is fulfilled either way.
fetchDataByTimeSettle(reply) ==
    IF reply.kind = "ok"
    THEN Promise("fulfilled", RecordsOrEmpty(reply), NoReply)
    ELSE Promise("fulfilled", <<>>, NoReply)

\* await axios.get(...) called by a handler itself.
axiosSettle(reply) ==
    IF reply.kind = "ok"
    THEN Promise("fulfilled", <<>>, reply)
    ELSE Promise("rejected", <<>>, reply)

PendingIndices(ps) ==
    {k \in 1..Len(ps) : ps[k].status = "pending"}

\* The calls whose answers may come next: those at most MaxReorder - 1 places
\* behind the oldest call still in flight.
MaySettle(ps) ==
    LET P == PendingIndices(ps)
    IN  IF P = {} THEN {}
        ELSE LET oldest == CHOOSE k \in P : \A j \in P : k <= j
             IN  {k \in P : k < oldest + MaxReorder}

\* Mutant: the handler goes on at the first promise to settle (Promise.race).
AnySettled(ps) ==
    ps # <<>> /\ \E k \in 1..Len(ps) : ps[k].status # "pending"

\* Promise.allSettled(fetchPromises) has resolved.
AllSettled(ps) ==
    ps # <<>> /\ PendingIndices(ps) = {}

----------------------------------------------------------------------------
(* Array.prototype.sort with a comparator that subtracts two dates *)

\* Mutant: a sort that is not stable, elements with the same key come out
\* in reverse.
PlaceByKeyTiesReversed(s, k) ==
    1 + Cardinality({j \in 1..Len(s) :
                        \/ s[j].key < s[k].key
                        \/ s[j].key = s[k].key /\ j > k})

\* The place element k of s takes once s is sorted by key: behind every
\* element with a smaller key, and behind the earlier elements with the same
\* key (the sort is stable).
PlaceByKey(s, k) ==
    1 + Cardinality({j \in 1..Len(s) :
                        \/ s[j].key < s[k].key
                        \/ s[j].key = s[k].key /\ j < k})

\* The sorted list.  (s is taken from a one-element set so that it is
\* evaluated once, not at each use.)
SortByKey(s) ==
    CHOOSE t \in {[p \in 1..Len(x) |->
                      x[CHOOSE k \in 1..Len(x) : PlaceByKey(x, k) = p]] : x \in {s}} :
        TRUE

Items(s) ==
    [k \in 1..Len(s) |-> s[k].item]

\* Mutant: the comparator compares the dates as written, field by field from
\* the day on, instead of parsing them.
SortByMonitorDateUnparsed(allData) ==
    Items(SortByKey([k \in 1..Len(allData) |->
        [key  |-> allData[k].monitordate[3] * 1440
                    + allData[k].monitordate[4] * 60 + allData[k].monitordate[5],
         item |-> allData[k]]]))

\* allData.sort((a, b) => new Date(a.monitordate) - new Date(b.monitordate))
SortByMonitorDate(allData) ==
    Items(SortByKey([k \in 1..Len(allData) |->
        [key |-> DateParse(allData[k].monitordate), item |-> allData[k]]]))

\* huadongRecords.sort((a, b) => new Date(b.publishtime) - new Date(a.publishtime))
SortByPublishTimeDesc(huadongRecords) ==
    Items(SortByKey([k \in 1..Len(huadongRecords) |->
        [key  |-> 0 - DateParse(huadongRecords[k].publishtime),
         item |-> huadongRecords[k]]]))

----------------------------------------------------------------------------
(* The batch handler's fan-in *)

\* Mutant: every fulfilled promise is counted, whether or not it brought records.
CountsAsSuccessfulAnyLength(result) ==
    result.status = "fulfilled"

\* if (result.status === 'fulfilled' && result.value.length > 0)
CountsAsSuccessful(result) ==
    result.status = "fulfilled" /\ Len(result.value) > 0

\* allData = allData.concat(result.value), over the results that count, in order.
RECURSIVE ConcatValues(_)
ConcatValues(rs) ==
    IF rs = <<>> THEN <<>>
    ELSE ConcatValues(SubSeq(rs, 1, Len(rs) - 1)) \o rs[Len(rs)].value

\* results.forEach(...): allData and successfulRequests after the loop.
\* (Here and below a value is taken from a one-element set where it is used
\* several times, so that it is evaluated once.)
Collect(rs) ==
    CHOOSE c \in {[allData |-> ConcatValues(counted),
                    successfulRequests |-> Len(counted)] :
                        counted \in {SelectSeq(rs, CountsAsSuccessful)}} :
        TRUE

\* Mutant: a batch without a single record is reported as an error.
BatchResponseErrorWhenEmpty(times, rs) ==
    LET c == Collect(rs)
    IN  IF c.successfulRequests = 0
        THEN [http |-> 500,
              body |-> [status |-> "error", message |-> "no data"]]
        ELSE [http |-> 200,
              body |-> [status |-> "success",
                        time_range_start |-> times[1],
                        time_range_end |-> times[Len(times)],
                        summary |-> [successfulRequests |-> c.successfulRequests,
                                     records |-> Len(c.allData)],
                        data |-> SortByMonitorDate(c.allData)]]

\* The body res.json sends once every promise has settled.
BatchResponse(times, rs) ==
    CHOOSE r \in
        {[http |-> 200,
          body |-> [status |-> "success",
                    time_range_start |-> times[1],
                    time_range_end |-> times[Len(times)],
                    summary |-> [successfulRequests |-> c.successfulRequests,
                                 records |-> Len(c.allData)],
                    data |-> SortByMonitorDate(c.allData)]] : c \in {Collect(rs)}} :
        TRUE

----------------------------------------------------------------------------
(* Routing *)

\* Whether the deployment has a handler registered for the path.  The
\* version in part_002 registers /test-single-record from inside the batch
\* handler; part_004 registers it at start.
Registered(path) ==
    \/ path = "/taitung-air-data" /\ variant \in BatchVariants
    \/ path = "/test-single-record" /\ testRouteRegs > 0
    \/ variant \in ForecastVariants /\ path = ForecastPath(variant)

\* A new request: nothing sent, nothing called yet.
Accept(path) ==
    /\ pc = "idle"
    /\ Registered(path)
    /\ route' = path
    /\ overtaken' = FALSE
    /\ outcomes' = <<>>
    /\ UNCHANGED <<variant, API_KEY, REFERENCE_TIME_STR>>

----------------------------------------------------------------------------
(* GET /taitung-air-data *)

\* Mutant: the key check is missing from the batch handler.
BatchKeyMissingNever(key) ==
    FALSE

\* if (!API_KEY)
BatchKeyMissing(key) ==
    key = ""

\* The nested app.get('/test-single-record', ...) of part_002, which runs
\* each time the batch handler gets past its key check.
RegsAfterBatch(v, regs) ==
    IF v = "p002" THEN regs + 1 ELSE regs

NestedRegistrationAllowed ==
    variant = "p002" => testRouteRegs < MaxRegs

BatchMissingKey ==
    /\ Accept("/taitung-air-data")
    /\ BatchKeyMissing(API_KEY)
    /\ response' = <<[http |-> 500,
                      body |-> [error |-> "API Key not set",
                                guidance |-> "set API_KEY"]]>>
    /\ allMonitorTimes' = <<>>
    /\ calls' = <<>>
    /\ results' = <<>>
    /\ transportOk' = FALSE
    /\ UNCHANGED <<pc, testRouteRegs>>

BatchInvalidReference ==
    /\ Accept("/taitung-air-data")
    /\ ~BatchKeyMissing(API_KEY)
    /\ NestedRegistrationAllowed
    /\ ~momentIsValid(REFERENCE_TIME_STR)
    /\ response' = <<[http |-> 400,
                      body |-> [error |-> "invalid reference time"]]>>
    /\ testRouteRegs' = RegsAfterBatch(variant, testRouteRegs)
    /\ allMonitorTimes' = <<>>
    /\ calls' = <<>>
    /\ results' = <<>>
    /\ transportOk' = FALSE
    /\ UNCHANGED pc

\* The calls that went out: one per promise that got as far as axios.get.
IssuedCalls(url, times, ps) ==
    LET all == [k \in 1..Len(times) |->
                  [call |-> Call(url, times[k]), sent |-> ps[k].status = "pending"]]
        out == SelectSeq(all, LAMBDA c : c.sent)
    IN  [k \in 1..Len(out) |-> out[k].call]

\* From the key check to await Promise.allSettled: the window is generated
\* and allMonitorTimes.map(fetchDataByTime) starts every fetch, each running
\* to its own await before the next starts.
BatchFanOut ==
    /\ Accept("/taitung-air-data")
    /\ ~BatchKeyMissing(API_KEY)
    /\ NestedRegistrationAllowed
    /\ momentIsValid(REFERENCE_TIME_STR)
    /\ LET times == GenerateMonitorTimes(momentParse(REFERENCE_TIME_STR))
           ps    == [k \in 1..Len(times) |->
                        fetchDataByTimeStart(variant, API_KEY, times[k])]
       IN  /\ allMonitorTimes' = times
           /\ results' = ps
           /\ calls' = IssuedCalls("aqx_p_152", times, ps)
    /\ testRouteRegs' = RegsAfterBatch(variant, testRouteRegs)
    /\ transportOk' = FALSE
    /\ response' = <<>>
    /\ pc' = "batch_await"

\* Mutant: the catch block of fetchDataByTime asks once more.
CallsAfterFetchRetry(cs, k, reply) ==
    IF reply.kind = "ok" THEN cs ELSE Append(cs, cs[k])

\* The calls issued once fetchDataByTime has its answer: the catch block
\* logs and returns [], it does not call again.
CallsAfterFetch(cs, k, reply) ==
    cs

\* The answer to call k brings records while a call issued before it is
\* still in flight.
Overtakes(ps, k, reply) ==
    /\ reply.kind = "ok"
    /\ RecordsOrEmpty(reply) # <<>>
    /\ \E j \in PendingIndices(ps) : j < k

\* The outcomes once call k has its answer: the records in it, none when
\* the call failed or the answer has no records field.
Answered(os, k, reply) ==
    [j \in DOMAIN os \cup {k} |->
        IF j # k THEN os[j]
        ELSE IF reply.kind = "ok" /\ reply.hasRecords THEN reply.records
        ELSE <<>>]

\* The upstream answers one call made by fetchDataByTime.
FetchSettle ==
    /\ pc \in {"batch_await", "fetch_await"}
    /\ \E k \in MaySettle(results) :
       \E reply \in RepliesFor(route, k) :
          /\ results' = [results EXCEPT ![k] = fetchDataByTimeSettle(reply)]
          /\ calls' = CallsAfterFetch(calls, k, reply)
          /\ transportOk' = (transportOk \/ reply.kind = "ok")
          /\ overtaken' = (overtaken \/ Overtakes(results, k, reply))
          /\ outcomes' = Answered(outcomes, k, reply)
    /\ UNCHANGED <<variant, API_KEY, REFERENCE_TIME_STR, testRouteRegs, pc,
                   route, allMonitorTimes, response>>

\* The handler resumes after await Promise.allSettled and answers.
BatchRespond ==
    /\ pc = "batch_await"
    /\ AllSettled(results)
    /\ response' = <<BatchResponse(allMonitorTimes, results)>>
    /\ pc' = "idle"
    /\ UNCHANGED <<variant, API_KEY, REFERENCE_TIME_STR, testRouteRegs, route,
                   allMonitorTimes, calls, results, transportOk, overtaken,
                   outcomes>>

----------------------------------------------------------------------------
(* GET /test-single-record *)

SingleMissingKey ==
    /\ Accept("/test-single-record")
    /\ API_KEY = ""
    /\ response' = <<[http |-> 500, body |-> [error |-> "API Key not set"]]>>
    /\ allMonitorTimes' = <<>>
    /\ calls' = <<>>
    /\ results' = <<>>
    /\ transportOk' = FALSE
    /\ UNCHANGED <<pc, testRouteRegs>>

\* part_004: the handler awaits fetchDataByTime(TEST_DATE).
SingleFetchStart ==
    /\ Accept("/test-single-record")
    /\ variant = "p004b"
    /\ API_KEY # ""
    /\ LET ps == <<fetchDataByTimeStart(variant, API_KEY, TEST_DATE)>>
       IN  /\ results' = ps
           /\ calls' = IssuedCalls("aqx_p_152", <<TEST_DATE>>, ps)
    /\ allMonitorTimes' = <<>>
    /\ transportOk' = FALSE
    /\ response' = <<>>
    /\ pc' = "fetch_await"
    /\ UNCHANGED testRouteRegs

\* part_002: the handler awaits axios.get itself.
SingleAxiosStart ==
    /\ Accept("/test-single-record")
    /\ variant = "p002"
    /\ API_KEY # ""
    /\ results' = <<Pending>>
    /\ calls' = <<Call("aqx_p_152", TEST_DATE)>>
    /\ allMonitorTimes' = <<>>
    /\ transportOk' = FALSE
    /\ response' = <<>>
    /\ pc' = "axios_await"
    /\ UNCHANGED testRouteRegs

\* The upstream answers a call a handler awaits directly.
AxiosSettle ==
    /\ pc = "axios_await"
    /\ \E k \in MaySettle(results) :
       \E reply \in RepliesFor(route, k) :
          /\ results' = [results EXCEPT ![k] = axiosSettle(reply)]
          /\ transportOk' = (transportOk \/ reply.kind = "ok")
    /\ UNCHANGED <<variant, API_KEY, REFERENCE_TIME_STR, testRouteRegs, pc,
                   route, allMonitorTimes, calls, response, overtaken,
                   outcomes>>

\* records.find(r => r.itemengname === 'PM2.5') || "not found"
FindPM25(records) ==
    LET hits == SelectSeq(records, LAMBDA r : r.itemengname = "PM2.5")
    IN  IF hits # <<>> THEN [kind |-> "record", record |-> hits[1]]
        ELSE [kind |-> "text", text |-> "PM2.5 not found"]

\* What the awaited promise gives the handler: the records fetchDataByTime
\* returned (part_004), or response.data.records || [] (part_002).
SingleRecords(v, p) ==
    IF v = "p004b" THEN p.value ELSE RecordsOrEmpty(p.reply)

\* The try block's answer when the await returned, the catch block's when it threw.
SingleResponse(v, p) ==
    IF p.status = "rejected"
    THEN [http |-> 500,
          body |-> [status |-> "error", message |-> "single test failed",
                    detail |-> p.reply.kind]]
    ELSE [http |-> 200,
          body |-> [status |-> "success",
                    test_target |-> TEST_DATE,
                    total_records_found |-> Len(SingleRecords(v, p)),
                    pm25_record |-> FindPM25(SingleRecords(v, p)),
                    all_records_for_test |-> SingleRecords(v, p)]]

SingleRespond ==
    /\ pc \in {"fetch_await", "axios_await"}
    /\ route = "/test-single-record"
    /\ AllSettled(results)
    /\ response' = <<SingleResponse(variant, results[1])>>
    /\ pc' = "idle"
    /\ UNCHANGED <<variant, API_KEY, REFERENCE_TIME_STR, testRouteRegs, route,
                   allMonitorTimes, calls, results, transportOk, overtaken,
                   outcomes>>

----------------------------------------------------------------------------
(* GET /huadong-air-forecast and GET /api/air/huadong *)

\* const TARGET_AREA = '花東'
TARGET_AREA == "huadong"

ForecastMissingKey ==
    /\ variant \in ForecastVariants
    /\ Accept(ForecastPath(variant))
    /\ API_KEY = ""
    /\ response' = <<[http |-> 500,
                      body |-> [status |-> "error",
                                message |-> "API Key not set",
                                guidance |-> "set API_KEY"]]>>
    /\ allMonitorTimes' = <<>>
    /\ calls' = <<>>
    /\ results' = <<>>
    /\ transportOk' = FALSE
    /\ UNCHANGED <<pc, testRouteRegs>>

ForecastStart ==
    /\ variant \in ForecastVariants
    /\ Accept(ForecastPath(variant))
    /\ API_KEY # ""
    /\ results' = <<Pending>>
    /\ calls' = <<Call("forecast", <<>>)>>
    /\ allMonitorTimes' = <<>>
    /\ transportOk' = FALSE
    /\ response' = <<>>
    /\ pc' = "axios_await"
    /\ UNCHANGED testRouteRegs

\* A handler that skips the filter.
FilterAreaKeepsAll(allRecords) ==
    allRecords

\* allRecords.filter(record => record.area === TARGET_AREA)
FilterArea(allRecords) ==
    SelectSeq(allRecords, LAMBDA r : r.area = TARGET_AREA)

\* data: the records, or in some versions a sentence when there are none.
ForecastData(v, huadongRecords) ==
    IF v \in {"server", "p001a", "p001b"} /\ huadongRecords = <<>>
    THEN [kind |-> "text", items |-> <<>>]
    ELSE [kind |-> "array", items |-> huadongRecords]

\* The catch block.  part_001's getHuadongAirForecast tells an upstream
\* error status (error.response) from no response; the others do not.
ForecastError(v, reply) ==
    IF v = "p001a" /\ reply.kind = "http_error"
    THEN [http |-> reply.status,
          body |-> [status |-> "api_error",
                    message |-> reply.status,
                    details |-> IF reply.data # "" THEN reply.data
                                ELSE "no details"]]
    ELSE [http |-> 500,
          body |-> [status |-> IF v = "p001a" THEN "server_error" ELSE "error",
                    message |-> "upstream call failed",
                    detail |-> reply.kind]]

ForecastResponse(v, p) ==
    IF p.status = "rejected" THEN ForecastError(v, p.reply)
    ELSE LET allRecords     == RecordsOrEmpty(p.reply)
             huadongRecords == SortByPublishTimeDesc(FilterArea(allRecords))
         IN  [http |-> 200,
              body |-> [status |-> "success",
                        filter_area |-> TARGET_AREA,
                        summary |-> [total |-> Len(allRecords),
                                     matched |-> Len(huadongRecords)],
                        data |-> ForecastData(v, huadongRecords)]]

ForecastRespond ==
    /\ pc = "axios_await"
    /\ variant \in ForecastVariants
    /\ route = ForecastPath(variant)
    /\ AllSettled(results)
    /\ response' = <<ForecastResponse(variant, results[1])>>
    /\ pc' = "idle"
    /\ UNCHANGED <<variant, API_KEY, REFERENCE_TIME_STR, testRouteRegs, route,
                   allMonitorTimes, calls, results, transportOk, overtaken,
                   outcomes>>

----------------------------------------------------------------------------
(* Requests for a path no handler is registered for *)

Paths ==
    {"/taitung-air-data", "/test-single-record", "/huadong-air-forecast",
     "/api/air/huadong"}

\* part_001 ends with a 404 handler that answers in JSON; elsewhere the
\* framework answers.
NotFoundResponse(v) ==
    IF v = "p001a"
    THEN [http |-> 404, body |-> [status |-> "error", message |-> "no such path"]]
    ELSE [http |-> 404, body |-> [html |-> "Cannot GET"]]

NotFound ==
    /\ pc = "idle"
    /\ \E path \in Paths :
          /\ ~Registered(path)
          /\ route' = path
    /\ response' = <<NotFoundResponse(variant)>>
    /\ allMonitorTimes' = <<>>
    /\ calls' = <<>>
    /\ results' = <<>>
    /\ transportOk' = FALSE
    /\ overtaken' = FALSE
    /\ outcomes' = <<>>
    /\ UNCHANGED <<variant, API_KEY, REFERENCE_TIME_STR, testRouteRegs, pc>>

----------------------------------------------------------------------------
(* The servers *)

Init ==
    /\ variant \in Variants
    /\ API_KEY \in ApiKeyValues(variant)
    /\ REFERENCE_TIME_STR =
          (IF variant \in BatchVariants THEN ReferenceTimeOf(variant)
           ELSE NoReference)
    /\ testRouteRegs = (IF variant = "p004b" THEN 1 ELSE 0)
    /\ pc = "idle"
    /\ route = ""
    /\ allMonitorTimes = <<>>
    /\ calls = <<>>
    /\ results = <<>>
    /\ transportOk = FALSE
    /\ response = <<>>
    /\ overtaken = FALSE
    /\ outcomes = <<>>

\* With the reference instants written in the files isValid() never fails,
\* so the branch that answers 400 is not among these steps; SpecConfig and
\* SpecWindow below have it.
Next ==
    \/ BatchMissingKey
    \/ BatchFanOut
    \/ FetchSettle
    \/ BatchRespond
    \/ SingleMissingKey
    \/ SingleFetchStart
    \/ SingleAxiosStart
    \/ AxiosSettle
    \/ SingleRespond
    \/ ForecastMissingKey
    \/ ForecastStart
    \/ ForecastRespond
    \/ NotFound

Spec == Init /\ [][Next]_vars

\* Once a handler may resume it does: the event loop runs the continuation
\* of a settled await.  Nothing makes the upstream answer.
FairSpec ==
    Spec /\ WF_vars(BatchRespond) /\ WF_vars(SingleRespond) /\ WF_vars(ForecastRespond)

----------------------------------------------------------------------------
(* The servers with REFERENCE_TIME_STR possibly edited to a string moment rejects *)

InitConfig ==
    /\ variant \in Variants
    /\ API_KEY \in ApiKeyValues(variant)
    /\ REFERENCE_TIME_STR \in
          (IF variant \in BatchVariants
           THEN {ReferenceTimeOf(variant), BadReference}
           ELSE {NoReference})
    /\ testRouteRegs = (IF variant = "p004b" THEN 1 ELSE 0)
    /\ pc = "idle"
    /\ route = ""
    /\ allMonitorTimes = <<>>
    /\ calls = <<>>
    /\ results = <<>>
    /\ transportOk = FALSE
    /\ response = <<>>
    /\ overtaken = FALSE
    /\ outcomes = <<>>

NextConfig ==
    \/ Next
    \/ BatchInvalidReference

SpecConfig == InitConfig /\ [][NextConfig]_vars

----------------------------------------------------------------------------
(* The window generator on its own, over many reference instants *)

RefInputs ==
    [y  : (2025 - RefYearsBack)..2025,
     mo : 0..13,
     d  : {0, 1, 28, 29, 30, 31, 32},
     h  : {0, 12, 17, 23, 24, 25},
     mi : {0, 30, 59, 60}]

InitWindow ==
    /\ variant \in BatchVariants
    /\ API_KEY = "env-key"
    /\ REFERENCE_TIME_STR \in RefInputs
    /\ testRouteRegs = (IF variant = "p004b" THEN 1 ELSE 0)
    /\ pc = "idle"
    /\ route = ""
    /\ allMonitorTimes = <<>>
    /\ calls = <<>>
    /\ results = <<>>
    /\ transportOk = FALSE
    /\ response = <<>>
    /\ overtaken = FALSE
    /\ outcomes = <<>>

NextWindow ==
    \/ BatchInvalidReference
    \/ BatchFanOut

SpecWindow == InitWindow /\ [][NextWindow]_vars

----------------------------------------------------------------------------
(* Properties *)

BatchPath == "/taitung-air-data"

SinglePath == "/test-single-record"

Sent == response # <<>>

\* A handler answered (not the framework's 404).
HandlerAnswered == Sent /\ response[1].http # 404

BatchSucceeded ==
    route = BatchPath /\ HandlerAnswered /\ response[1].http = 200

NonePending ==
    results # <<>> /\ PendingIndices(results) = {}

\* The one upstream call of a single-call handler failed at the transport level.
LoneCallFailed ==
    Len(calls) = 1 /\ NonePending /\ ~transportOk

IsErrorResponse(r) ==
    /\ r.http = 500
    /\ "status" \in DOMAIN r.body
    /\ r.body.status = "error"

\* C1: on /test-single-record, when the one upstream call failed at the
\* transport level, the response is an error response (HTTP 500, status
\* 'error'), never a success response with zero records.
C1_SingleFailureIsError ==
    (route = SinglePath /\ HandlerAnswered /\ LoneCallFailed)
        => IsErrorResponse(response[1])

ConfigurationMissing ==
    \/ API_KEY = ""
    \/ route = BatchPath /\ ~momentIsValid(REFERENCE_TIME_STR)

IsConfigurationError(r) ==
    /\ r.http \in {400, 500}
    /\ \/ "error" \in DOMAIN r.body
       \/ "guidance" \in DOMAIN r.body

\* C2: a request handled while the credential is absent (any endpoint), or
\* while the reference instant is invalid (batch), issues no upstream call
\* and ends in a configuration-error response.
C2_NoCallWithoutConfiguration ==
    /\ ConfigurationMissing => calls = <<>>
    /\ (ConfigurationMissing /\ HandlerAnswered)
          => IsConfigurationError(response[1])

C2_Witness ==
    /\ route = BatchPath
    /\ API_KEY = ""
    /\ HandlerAnswered
    /\ response[1].http = 500

\* The fetches that returned at least one record.
WithRecords(rs) ==
    {k \in 1..Len(rs) : Len(rs[k].value) > 0}

\* The records the fetches returned, each with its place.
Returned(rs) ==
    UNION {{<<k, j>> : j \in 1..Len(rs[k].value)} : k \in 1..Len(rs)}

AllAirRecords ==
    UNION {{b[j] : j \in 1..Len(b)} : b \in AirBodies}

\* C3: with exactly K fetches returning at least one record, the batch
\* response counts K successful requests and its data holds exactly the
\* records of those fetches, each as often as it was returned.
C3_CountAndUnion ==
    BatchSucceeded =>
        /\ response[1].body.summary.successfulRequests
              = Cardinality(WithRecords(results))
        /\ Len(response[1].body.data) = Cardinality(Returned(results))
        /\ response[1].body.summary.records = Cardinality(Returned(results))
        /\ \A r \in AllAirRecords :
              Cardinality({j \in 1..Len(response[1].body.data) :
                              response[1].body.data[j] = r})
                = Cardinality({p \in Returned(results) :
                                  results[p[1]].value[p[2]] = r})

C3_Witness ==
    /\ BatchSucceeded
    /\ transportOk
    /\ Cardinality(WithRecords(results)) = 1
    /\ Len(response[1].body.data) = 2

\* C4: when every one of the 73 fetches fails, the batch endpoint answers
\* with status 'success', no records and a successful-request count of 0.
C4_AllFailedIsEmptySuccess ==
    (route = BatchPath /\ HandlerAnswered /\ Len(calls) = 73 /\ ~transportOk)
        => /\ response[1].http = 200
           /\ response[1].body.status = "success"
           /\ response[1].body.data = <<>>
           /\ response[1].body.summary.successfulRequests = 0

C4_Witness ==
    /\ BatchSucceeded
    /\ Len(calls) = 73
    /\ ~transportOk
    /\ response[1].body.data = <<>>

\* C5: the data of a batch success response ascends by the records' own
\* monitordate.
C5_SortedByMonitorDate ==
    BatchSucceeded =>
        \A j \in 1..(Len(response[1].body.data) - 1) :
            DateParse(response[1].body.data[j].monitordate)
              <= DateParse(response[1].body.data[j + 1].monitordate)

C5_Witness ==
    /\ BatchSucceeded
    /\ Len(response[1].body.data) = 4
    /\ Len(results[1].value) = 2
    /\ Len(results[2].value) = 2
    /\ results[1].value[1].monitordate = <<2025, 12, 1, 0, 0>>
    /\ results[2].value[1].monitordate = <<2025, 11, 24, 13, 0>>

\* A formatted instant names a real hour of a real day.
WellFormed(t) ==
    /\ t[2] \in 1..12
    /\ t[3] \in 1..DaysInMonth(t[1], t[2])
    /\ t[4] \in 0..23
    /\ t[5] = 0

\* C6: for a valid reference instant R the window holds exactly 73 instants,
\* each exactly one hour after the one before, and its 37th is R with the
\* minutes zeroed.
C6_WindowShape ==
    pc = "batch_await" =>
        /\ Len(allMonitorTimes) = 73
        /\ \A k \in 1..73 : WellFormed(allMonitorTimes[k])
        /\ \A k \in 1..72 :
              DateParse(allMonitorTimes[k + 1]) = DateParse(allMonitorTimes[k]) + 60
        /\ DateParse(allMonitorTimes[37])
              = DaysFromCivil(REFERENCE_TIME_STR.y, REFERENCE_TIME_STR.mo,
                              REFERENCE_TIME_STR.d) * 1440
                + REFERENCE_TIME_STR.h * 60
        /\ REFERENCE_TIME_STR.h < 24 =>
              allMonitorTimes[37] = <<REFERENCE_TIME_STR.y, REFERENCE_TIME_STR.mo,
                                      REFERENCE_TIME_STR.d, REFERENCE_TIME_STR.h, 0>>

\* A window that crosses 29 February, from a reference with minutes.
C6_Witness ==
    /\ pc = "batch_await"
    /\ REFERENCE_TIME_STR = [y |-> 2024, mo |-> 3, d |-> 1, h |-> 0, mi |-> 30]
    /\ Len(allMonitorTimes) = 73
    /\ allMonitorTimes[1] = <<2024, 2, 28, 12, 0>>

\* C7: with the reference instant 2025-11-26 00:00 the window, and the
\* response's time range, run from 2025-11-24 12:00 to 2025-11-27 12:00.
C7_ConfiguredRange ==
    (route = BatchPath
        /\ REFERENCE_TIME_STR = [y |-> 2025, mo |-> 11, d |-> 26, h |-> 0, mi |-> 0])
    => /\ pc = "batch_await" =>
            /\ allMonitorTimes[1] = <<2025, 11, 24, 12, 0>>
            /\ allMonitorTimes[Len(allMonitorTimes)] = <<2025, 11, 27, 12, 0>>
       /\ BatchSucceeded =>
            /\ response[1].body.time_range_start = <<2025, 11, 24, 12, 0>>
            /\ response[1].body.time_range_end = <<2025, 11, 27, 12, 0>>

C7_Witness ==
    /\ BatchSucceeded
    /\ REFERENCE_TIME_STR = [y |-> 2025, mo |-> 11, d |-> 26, h |-> 0, mi |-> 0]
    /\ response[1].body.time_range_end = <<2025, 11, 27, 12, 0>>

\* C8: the batch response is sent only once all 73 fetches have settled (not
\* on the first failure, not on the first success), and once they have, a
\* response is eventually sent.
C8_RespondsAfterFullSettlement ==
    /\ [](route = BatchPath /\ PendingIndices(results) # {} => ~Sent)
    /\ [](BatchSucceeded => Len(results) = 73 /\ NonePending)
    /\ (pc = "batch_await" /\ NonePending) ~> (pc = "idle" /\ Sent)

\* One fetch brought records, another failed, others are in flight, and
\* nothing has been sent.
C8_Witness ==
    /\ pc = "batch_await"
    /\ ~Sent
    /\ WithRecords(results) # {}
    /\ \E k \in 1..Len(results) :
          results[k].status = "fulfilled" /\ results[k].value = <<>>
    /\ Cardinality(PendingIndices(results)) > 60

HasStatusAndMessage(r) ==
    {"status", "message"} \subseteq DOMAIN r.body

\* A request that fails as a whole: the configuration is missing, or the one
\* upstream call of a single-call handler failed.
RequestFailed ==
    \/ ConfigurationMissing
    \/ route # BatchPath /\ LoneCallFailed

\* C9: every failure outcome of every endpoint is delivered as an error
\* response carrying a status tag and a message.
C9_FailuresAreStructured ==
    (HandlerAnswered /\ RequestFailed)
        => /\ response[1].http >= 400
           /\ HasStatusAndMessage(response[1])

TimesRequested(t) ==
    Cardinality({j \in 1..Len(calls) : calls[j].monitordate = t})

\* C10: in one batch request each of the 73 instants is requested exactly
\* once, all of them before the handler waits, and none again afterwards.
C10_EachInstantOnce ==
    (route = BatchPath /\ (pc = "batch_await" \/ BatchSucceeded))
        => /\ Len(allMonitorTimes) = 73
           /\ Len(calls) = 73
           /\ \A k \in 1..73 : TimesRequested(allMonitorTimes[k]) = 1

\* All 73 calls are out and none has been answered.
C10_Witness ==
    /\ pc = "batch_await"
    /\ Len(calls) = 73
    /\ Cardinality(PendingIndices(results)) = 73

----------------------------------------------------------------------------
(* The forecast handlers *)

ForecastAnswered ==
    /\ variant \in ForecastVariants
    /\ route = ForecastPath(variant)
    /\ HandlerAnswered
    /\ NonePending

\* What axios.get gave the forecast handler that has answered.
UpstreamReply == results[1].reply

\* C11: when the forecast handler's one upstream call fails, an upstream
\* error status is answered with that status code and body under the status
\* tag 'api_error', and a failure with no upstream response with HTTP 500
\* under the status tag 'server_error'; the two kinds never share a tag.
C11_FailureKindsDistinguished ==
    ForecastAnswered =>
       /\ UpstreamReply.kind = "http_error" =>
             /\ response[1].http = UpstreamReply.status
             /\ response[1].body.status = "api_error"
             /\ "details" \in DOMAIN response[1].body
             /\ UpstreamReply.data # "" =>
                   response[1].body.details = UpstreamReply.data
       /\ UpstreamReply.kind = "network_error" =>
             /\ response[1].http = 500
             /\ response[1].body.status = "server_error"

UpstreamRecords ==
    IF UpstreamReply.hasRecords THEN UpstreamReply.records ELSE <<>>

Occurrences(s, r) ==
    Cardinality({i \in 1..Len(s) : s[i] = r})

Matching ==
    {i \in 1..Len(UpstreamRecords) : UpstreamRecords[i].area = "huadong"}

\* C12: after a successful upstream call the forecast response is a success
\* whose data holds exactly the upstream records of area '花東' (each as
\* often as upstream, no other record), newest publishtime first; the
\* summary gives the upstream count and the matching count; with no match
\* the data is a placeholder sentence or an empty array, still a success.
C12_FilteredNewestFirst ==
    (ForecastAnswered /\ UpstreamReply.kind = "ok") =>
       LET body == response[1].body
           data == body.data
       IN  /\ response[1].http = 200
           /\ body.status = "success"
           /\ body.summary.total = Len(UpstreamRecords)
           /\ body.summary.matched = Cardinality(Matching)
           /\ Matching = {} => data.kind = "text" \/ data.items = <<>>
           /\ Matching # {} =>
                 /\ data.kind = "array"
                 /\ Len(data.items) = Cardinality(Matching)
                 /\ \A i \in 1..Len(UpstreamRecords) :
                       Occurrences(data.items, UpstreamRecords[i]) =
                          (IF i \in Matching
                           THEN Occurrences(UpstreamRecords, UpstreamRecords[i])
                           ELSE 0)
                 /\ \A i \in 1..(Len(data.items) - 1) :
                       DateParse(data.items[i].publishtime) >=
                          DateParse(data.items[i + 1].publishtime)

\* Three matching records among four, the newest of them not first upstream.
C12_Witness ==
    /\ ForecastAnswered
    /\ UpstreamReply.kind = "ok"
    /\ Len(UpstreamRecords) = 4
    /\ Cardinality(Matching) = 3
    /\ UpstreamRecords[1].area = "huadong"
    /\ response[1].body.data.items[1] = UpstreamRecords[3]

----------------------------------------------------------------------------
(* Route registration *)

\* C13: /test-single-record is registered on its own, not from inside the
\* batch handler: in a version that defines it, it is served from server
\* start on, whether or not /taitung-air-data was requested before (never
\* the framework's 404), and handling a /taitung-air-data request leaves
\* the route registrations as they were.
C13_SingleRouteIndependent ==
    /\ [](variant \in SingleVariants =>
             ~(route = SinglePath /\ Sent /\ response[1].http = 404))
    /\ [][route' = BatchPath => testRouteRegs' = testRouteRegs]_vars

----------------------------------------------------------------------------
(* The batch response and the order of the answers *)

\* Where the records the upstream gave are: <<k, j>> is record j of the
\* answer to the call for instant k.
Sources ==
    UNION {{<<k, j>> : j \in 1..Len(outcomes[k])} : k \in DOMAIN outcomes}

SourceRecord(a) == outcomes[a[1]][a[2]]

SourceDate(a) == DateParse(SourceRecord(a).monitordate)

\* Request order: by instant, then by position in the instant's list.
RequestedBefore(a, b) ==
    a[1] < b[1] \/ (a[1] = b[1] /\ a[2] < b[2])

ExpectedPlace(a) ==
    1 + Cardinality({b \in Sources :
                        \/ SourceDate(b) < SourceDate(a)
                        \/ SourceDate(b) = SourceDate(a) /\ RequestedBefore(b, a)})

\* C14: the batch response is determined by the outcome of each instant's
\* fetch, whatever the order the answers came in: the count is the number
\* of instants that gave records, every record stands at the place its date
\* and, among equal dates, its instant and position in request order give
\* it, and the time range is the first and last generated instant.
C14_ResponseFromOutcomesOnly ==
    BatchSucceeded =>
       LET body == response[1].body
       IN  /\ DOMAIN outcomes = 1..Len(allMonitorTimes)
           /\ body.summary.successfulRequests =
                 Cardinality({k \in DOMAIN outcomes : outcomes[k] # <<>>})
           /\ body.summary.records = Cardinality(Sources)
           /\ Len(body.data) = Cardinality(Sources)
           /\ \A a \in Sources : body.data[ExpectedPlace(a)] = SourceRecord(a)
           /\ body.time_range_start = allMonitorTimes[1]
           /\ body.time_range_end = allMonitorTimes[Len(allMonitorTimes)]

\* The answer for the second instant came in before the one for the first,
\* both brought a record of the same date, and the first instant's record
\* is first in the response.
C14_Witness ==
    /\ BatchSucceeded
    /\ overtaken
    /\ Len(outcomes[1]) = 2
    /\ Len(outcomes[2]) = 2
    /\ outcomes[1][2] # outcomes[2][2]
    /\ outcomes[1][2].monitordate = outcomes[2][2].monitordate
    /\ response[1].body.data[1] = outcomes[1][2]
    /\ response[1].body.data[2] = outcomes[2][2]

====
